---- MODULE Spec2Model ----
(***************************************************************************)
(* Model of the /ws/transcribe WebSocket proxy of backend/app/main.py:     *)
(* ws_transcribe (the session orchestrator), its two nested coroutines     *)
(* forward_audio and relay_transcripts, and _normalize_lang.               *)
(*                                                                         *)
(* One step of the model is what one coroutine executes between two        *)
(* awaits on the asyncio event loop: the completion of the awaited call,   *)
(* the synchronous code after it, and the invocation of the next awaited   *)
(* call.  Strings are sequences of one-character strings, optional values  *)
(* (Python None) are sequences of length at most one.                      *)
(***************************************************************************)
EXTENDS Integers, Sequences, FiniteSets, TLC

VARIABLES
    rawLang,        \* websocket.query_params.get("lang")
    rawRate,        \* websocket.query_params.get("sample_rate")
    rawEnc,         \* websocket.query_params.get("encoding")
    lang,           \* the local `lang` of ws_transcribe
    sampleRate,     \* the local `sample_rate` of ws_transcribe
    encoding,       \* the local `encoding` of ws_transcribe
    orch,           \* position of ws_transcribe
    orchExc,        \* the exception `e` bound by the handler of ws_transcribe
    gathered,       \* outcome held by the future of asyncio.gather
    fa,             \* position of forward_audio
    faPend,         \* exception in flight while forward_audio runs its finally
    faExc,          \* exception forward_audio terminated with
    faExit,         \* how the loop of forward_audio was left
    msgText,        \* msg["text"] of the local `msg` of forward_audio
    endFailed,      \* whether end_stream raised
    rt,             \* position of relay_transcripts
    rtExc,          \* exception relay_transcripts terminated with
    rtPos,          \* <<result index, alternative index>> of the payload being sent
    conn,           \* state of the client connection
    stats,          \* the stats dict
    recvBin,        \* chunks of the binary frames websocket.receive returned
    pushed,         \* chunks handed to stream.input_stream.send_audio_event
    closeCalls,     \* number of calls of stream.input_stream.end_stream
    evlog,          \* TranscriptEvents taken from stream.output_stream
    sent,           \* payloads whose websocket.send_json completed
    errAttempts,    \* payloads of the calls send_json({"type": "error", ...})
    closeAttempts,  \* number of calls of websocket.close
    streamErrs      \* exceptions the tasks failed with while gather was awaited

vars == <<rawLang, rawRate, rawEnc, lang, sampleRate, encoding, orch, orchExc,
          gathered, fa, faPend, faExc, faExit, msgText, endFailed, rt, rtExc, rtPos, conn, stats, recvBin, pushed, closeCalls, evlog, sent,
          errAttempts, closeAttempts, streamErrs>>

\* Bounds of the model.
MaxFrames == 2
MaxEvents == 2

\* ------------------------------------------------------------------------
\* Python values
\* ------------------------------------------------------------------------
None == <<>>
Some(v) == <<v>>

\* `x or d` for an optional sequence-like value (None and empty are falsy).
OrElse(x, d) == IF x = None \/ x[1] = <<>> THEN d ELSE x[1]

\* A character above U+00FF is the one-element token "<U+XXXX>" of its code
\* point.  str.isspace(): the 29 characters strip() removes.
IsSpace(c) ==
    c \in {" ", "\t", "\n", "\r", "", "\f", "", "", "", "",
           "", " ", "<U+1680>", "<U+2000>", "<U+2001>", "<U+2002>", "<U+2003>",
           "<U+2004>", "<U+2005>", "<U+2006>", "<U+2007>", "<U+2008>", "<U+2009>",
           "<U+200A>", "<U+2028>", "<U+2029>", "<U+202F>", "<U+205F>", "<U+3000>"}

RECURSIVE LStrip(_)
LStrip(s) == IF s # <<>> /\ IsSpace(Head(s)) THEN LStrip(Tail(s)) ELSE s

RECURSIVE RStrip(_)
RStrip(s) ==
    IF s # <<>> /\ IsSpace(s[Len(s)]) THEN RStrip(SubSeq(s, 1, Len(s) - 1)) ELSE s

\* str.strip()
Strip(s) == RStrip(LStrip(s))

LowerChar(c) ==
    CASE c = "F" -> "f" [] c = "R" -> "r" [] c = "E" -> "e" [] c = "N" -> "n"
      [] c = "U" -> "u" [] c = "S" -> "s" [] c = "D" -> "d" [] c = "P" -> "p"
      [] c = "C" -> "c" [] c = "M" -> "m" [] c = "O" -> "o" [] c = "G" -> "g"
      [] OTHER -> c

UpperChar(c) ==
    CASE c = "f" -> "F" [] c = "r" -> "R" [] c = "e" -> "E" [] c = "n" -> "N"
      [] c = "u" -> "U" [] c = "s" -> "S" [] c = "d" -> "D" [] c = "a" -> "A"
      [] c = "b" -> "B" [] c = "o" -> "O" [] c = "k" -> "K" [] OTHER -> c

\* str.lower() and str.upper()
Lower(s) == [i \in 1..Len(s) |-> LowerChar(s[i])]
Upper(s) == [i \in 1..Len(s) |-> UpperChar(s[i])]

FR_FR == <<"f", "r", "-", "F", "R">>
EN_US == <<"e", "n", "-", "U", "S">>

_normalize_langNoStrip(l) ==
    IF l = None \/ l[1] = <<>> THEN FR_FR
    ELSE IF Lower(l[1]) \in {<<"f", "r">>, <<"f", "r", "-", "f", "r">>,
                               <<"f", "r", "_", "f", "r">>} THEN FR_FR
    ELSE IF Lower(l[1]) \in {<<"e", "n">>, <<"e", "n", "-", "u", "s">>,
                               <<"e", "n", "_", "u", "s">>} THEN EN_US
    ELSE FR_FR

_normalize_lang(l) ==
    IF l = None \/ l[1] = <<>> THEN FR_FR
    ELSE IF Lower(Strip(l[1])) \in {<<"f", "r">>, <<"f", "r", "-", "f", "r">>,
                                      <<"f", "r", "_", "f", "r">>} THEN FR_FR
    ELSE IF Lower(Strip(l[1])) \in {<<"e", "n">>, <<"e", "n", "-", "u", "s">>,
                                      <<"e", "n", "_", "u", "s">>} THEN EN_US
    ELSE FR_FR

\* The decimal digits int() accepts (Unicode category Nd), one row of ten
\* per script, from zero to nine.
DigitRows ==
    <<
      <<"0", "1", "2", "3", "4", "5", "6", "7", "8", "9">>,
      <<"<U+0660>", "<U+0661>", "<U+0662>", "<U+0663>", "<U+0664>", "<U+0665>", "<U+0666>", "<U+0667>", "<U+0668>", "<U+0669>">>,
      <<"<U+06F0>", "<U+06F1>", "<U+06F2>", "<U+06F3>", "<U+06F4>", "<U+06F5>", "<U+06F6>", "<U+06F7>", "<U+06F8>", "<U+06F9>">>,
      <<"<U+07C0>", "<U+07C1>", "<U+07C2>", "<U+07C3>", "<U+07C4>", "<U+07C5>", "<U+07C6>", "<U+07C7>", "<U+07C8>", "<U+07C9>">>,
      <<"<U+0966>", "<U+0967>", "<U+0968>", "<U+0969>", "<U+096A>", "<U+096B>", "<U+096C>", "<U+096D>", "<U+096E>", "<U+096F>">>,
      <<"<U+09E6>", "<U+09E7>", "<U+09E8>", "<U+09E9>", "<U+09EA>", "<U+09EB>", "<U+09EC>", "<U+09ED>", "<U+09EE>", "<U+09EF>">>,
      <<"<U+0A66>", "<U+0A67>", "<U+0A68>", "<U+0A69>", "<U+0A6A>", "<U+0A6B>", "<U+0A6C>", "<U+0A6D>", "<U+0A6E>", "<U+0A6F>">>,
      <<"<U+0AE6>", "<U+0AE7>", "<U+0AE8>", "<U+0AE9>", "<U+0AEA>", "<U+0AEB>", "<U+0AEC>", "<U+0AED>", "<U+0AEE>", "<U+0AEF>">>,
      <<"<U+0B66>", "<U+0B67>", "<U+0B68>", "<U+0B69>", "<U+0B6A>", "<U+0B6B>", "<U+0B6C>", "<U+0B6D>", "<U+0B6E>", "<U+0B6F>">>,
      <<"<U+0BE6>", "<U+0BE7>", "<U+0BE8>", "<U+0BE9>", "<U+0BEA>", "<U+0BEB>", "<U+0BEC>", "<U+0BED>", "<U+0BEE>", "<U+0BEF>">>,
      <<"<U+0C66>", "<U+0C67>", "<U+0C68>", "<U+0C69>", "<U+0C6A>", "<U+0C6B>", "<U+0C6C>", "<U+0C6D>", "<U+0C6E>", "<U+0C6F>">>,
      <<"<U+0CE6>", "<U+0CE7>", "<U+0CE8>", "<U+0CE9>", "<U+0CEA>", "<U+0CEB>", "<U+0CEC>", "<U+0CED>", "<U+0CEE>", "<U+0CEF>">>,
      <<"<U+0D66>", "<U+0D67>", "<U+0D68>", "<U+0D69>", "<U+0D6A>", "<U+0D6B>", "<U+0D6C>", "<U+0D6D>", "<U+0D6E>", "<U+0D6F>">>,
      <<"<U+0DE6>", "<U+0DE7>", "<U+0DE8>", "<U+0DE9>", "<U+0DEA>", "<U+0DEB>", "<U+0DEC>", "<U+0DED>", "<U+0DEE>", "<U+0DEF>">>,
      <<"<U+0E50>", "<U+0E51>", "<U+0E52>", "<U+0E53>", "<U+0E54>", "<U+0E55>", "<U+0E56>", "<U+0E57>", "<U+0E58>", "<U+0E59>">>,
      <<"<U+0ED0>", "<U+0ED1>", "<U+0ED2>", "<U+0ED3>", "<U+0ED4>", "<U+0ED5>", "<U+0ED6>", "<U+0ED7>", "<U+0ED8>", "<U+0ED9>">>,
      <<"<U+0F20>", "<U+0F21>", "<U+0F22>", "<U+0F23>", "<U+0F24>", "<U+0F25>", "<U+0F26>", "<U+0F27>", "<U+0F28>", "<U+0F29>">>,
      <<"<U+1040>", "<U+1041>", "<U+1042>", "<U+1043>", "<U+1044>", "<U+1045>", "<U+1046>", "<U+1047>", "<U+1048>", "<U+1049>">>,
      <<"<U+1090>", "<U+1091>", "<U+1092>", "<U+1093>", "<U+1094>", "<U+1095>", "<U+1096>", "<U+1097>", "<U+1098>", "<U+1099>">>,
      <<"<U+17E0>", "<U+17E1>", "<U+17E2>", "<U+17E3>", "<U+17E4>", "<U+17E5>", "<U+17E6>", "<U+17E7>", "<U+17E8>", "<U+17E9>">>,
      <<"<U+1810>", "<U+1811>", "<U+1812>", "<U+1813>", "<U+1814>", "<U+1815>", "<U+1816>", "<U+1817>", "<U+1818>", "<U+1819>">>,
      <<"<U+1946>", "<U+1947>", "<U+1948>", "<U+1949>", "<U+194A>", "<U+194B>", "<U+194C>", "<U+194D>", "<U+194E>", "<U+194F>">>,
      <<"<U+19D0>", "<U+19D1>", "<U+19D2>", "<U+19D3>", "<U+19D4>", "<U+19D5>", "<U+19D6>", "<U+19D7>", "<U+19D8>", "<U+19D9>">>,
      <<"<U+1A80>", "<U+1A81>", "<U+1A82>", "<U+1A83>", "<U+1A84>", "<U+1A85>", "<U+1A86>", "<U+1A87>", "<U+1A88>", "<U+1A89>">>,
      <<"<U+1A90>", "<U+1A91>", "<U+1A92>", "<U+1A93>", "<U+1A94>", "<U+1A95>", "<U+1A96>", "<U+1A97>", "<U+1A98>", "<U+1A99>">>,
      <<"<U+1B50>", "<U+1B51>", "<U+1B52>", "<U+1B53>", "<U+1B54>", "<U+1B55>", "<U+1B56>", "<U+1B57>", "<U+1B58>", "<U+1B59>">>,
      <<"<U+1BB0>", "<U+1BB1>", "<U+1BB2>", "<U+1BB3>", "<U+1BB4>", "<U+1BB5>", "<U+1BB6>", "<U+1BB7>", "<U+1BB8>", "<U+1BB9>">>,
      <<"<U+1C40>", "<U+1C41>", "<U+1C42>", "<U+1C43>", "<U+1C44>", "<U+1C45>", "<U+1C46>", "<U+1C47>", "<U+1C48>", "<U+1C49>">>,
      <<"<U+1C50>", "<U+1C51>", "<U+1C52>", "<U+1C53>", "<U+1C54>", "<U+1C55>", "<U+1C56>", "<U+1C57>", "<U+1C58>", "<U+1C59>">>,
      <<"<U+A620>", "<U+A621>", "<U+A622>", "<U+A623>", "<U+A624>", "<U+A625>", "<U+A626>", "<U+A627>", "<U+A628>", "<U+A629>">>,
      <<"<U+A8D0>", "<U+A8D1>", "<U+A8D2>", "<U+A8D3>", "<U+A8D4>", "<U+A8D5>", "<U+A8D6>", "<U+A8D7>", "<U+A8D8>", "<U+A8D9>">>,
      <<"<U+A900>", "<U+A901>", "<U+A902>", "<U+A903>", "<U+A904>", "<U+A905>", "<U+A906>", "<U+A907>", "<U+A908>", "<U+A909>">>,
      <<"<U+A9D0>", "<U+A9D1>", "<U+A9D2>", "<U+A9D3>", "<U+A9D4>", "<U+A9D5>", "<U+A9D6>", "<U+A9D7>", "<U+A9D8>", "<U+A9D9>">>,
      <<"<U+A9F0>", "<U+A9F1>", "<U+A9F2>", "<U+A9F3>", "<U+A9F4>", "<U+A9F5>", "<U+A9F6>", "<U+A9F7>", "<U+A9F8>", "<U+A9F9>">>,
      <<"<U+AA50>", "<U+AA51>", "<U+AA52>", "<U+AA53>", "<U+AA54>", "<U+AA55>", "<U+AA56>", "<U+AA57>", "<U+AA58>", "<U+AA59>">>,
      <<"<U+ABF0>", "<U+ABF1>", "<U+ABF2>", "<U+ABF3>", "<U+ABF4>", "<U+ABF5>", "<U+ABF6>", "<U+ABF7>", "<U+ABF8>", "<U+ABF9>">>,
      <<"<U+FF10>", "<U+FF11>", "<U+FF12>", "<U+FF13>", "<U+FF14>", "<U+FF15>", "<U+FF16>", "<U+FF17>", "<U+FF18>", "<U+FF19>">>,
      <<"<U+104A0>", "<U+104A1>", "<U+104A2>", "<U+104A3>", "<U+104A4>", "<U+104A5>", "<U+104A6>", "<U+104A7>", "<U+104A8>", "<U+104A9>">>,
      <<"<U+10D30>", "<U+10D31>", "<U+10D32>", "<U+10D33>", "<U+10D34>", "<U+10D35>", "<U+10D36>", "<U+10D37>", "<U+10D38>", "<U+10D39>">>,
      <<"<U+11066>", "<U+11067>", "<U+11068>", "<U+11069>", "<U+1106A>", "<U+1106B>", "<U+1106C>", "<U+1106D>", "<U+1106E>", "<U+1106F>">>,
      <<"<U+110F0>", "<U+110F1>", "<U+110F2>", "<U+110F3>", "<U+110F4>", "<U+110F5>", "<U+110F6>", "<U+110F7>", "<U+110F8>", "<U+110F9>">>,
      <<"<U+11136>", "<U+11137>", "<U+11138>", "<U+11139>", "<U+1113A>", "<U+1113B>", "<U+1113C>", "<U+1113D>", "<U+1113E>", "<U+1113F>">>,
      <<"<U+111D0>", "<U+111D1>", "<U+111D2>", "<U+111D3>", "<U+111D4>", "<U+111D5>", "<U+111D6>", "<U+111D7>", "<U+111D8>", "<U+111D9>">>,
      <<"<U+112F0>", "<U+112F1>", "<U+112F2>", "<U+112F3>", "<U+112F4>", "<U+112F5>", "<U+112F6>", "<U+112F7>", "<U+112F8>", "<U+112F9>">>,
      <<"<U+11450>", "<U+11451>", "<U+11452>", "<U+11453>", "<U+11454>", "<U+11455>", "<U+11456>", "<U+11457>", "<U+11458>", "<U+11459>">>,
      <<"<U+114D0>", "<U+114D1>", "<U+114D2>", "<U+114D3>", "<U+114D4>", "<U+114D5>", "<U+114D6>", "<U+114D7>", "<U+114D8>", "<U+114D9>">>,
      <<"<U+11650>", "<U+11651>", "<U+11652>", "<U+11653>", "<U+11654>", "<U+11655>", "<U+11656>", "<U+11657>", "<U+11658>", "<U+11659>">>,
      <<"<U+116C0>", "<U+116C1>", "<U+116C2>", "<U+116C3>", "<U+116C4>", "<U+116C5>", "<U+116C6>", "<U+116C7>", "<U+116C8>", "<U+116C9>">>,
      <<"<U+11730>", "<U+11731>", "<U+11732>", "<U+11733>", "<U+11734>", "<U+11735>", "<U+11736>", "<U+11737>", "<U+11738>", "<U+11739>">>,
      <<"<U+118E0>", "<U+118E1>", "<U+118E2>", "<U+118E3>", "<U+118E4>", "<U+118E5>", "<U+118E6>", "<U+118E7>", "<U+118E8>", "<U+118E9>">>,
      <<"<U+11950>", "<U+11951>", "<U+11952>", "<U+11953>", "<U+11954>", "<U+11955>", "<U+11956>", "<U+11957>", "<U+11958>", "<U+11959>">>,
      <<"<U+11C50>", "<U+11C51>", "<U+11C52>", "<U+11C53>", "<U+11C54>", "<U+11C55>", "<U+11C56>", "<U+11C57>", "<U+11C58>", "<U+11C59>">>,
      <<"<U+11D50>", "<U+11D51>", "<U+11D52>", "<U+11D53>", "<U+11D54>", "<U+11D55>", "<U+11D56>", "<U+11D57>", "<U+11D58>", "<U+11D59>">>,
      <<"<U+11DA0>", "<U+11DA1>", "<U+11DA2>", "<U+11DA3>", "<U+11DA4>", "<U+11DA5>", "<U+11DA6>", "<U+11DA7>", "<U+11DA8>", "<U+11DA9>">>,
      <<"<U+16A60>", "<U+16A61>", "<U+16A62>", "<U+16A63>", "<U+16A64>", "<U+16A65>", "<U+16A66>", "<U+16A67>", "<U+16A68>", "<U+16A69>">>,
      <<"<U+16AC0>", "<U+16AC1>", "<U+16AC2>", "<U+16AC3>", "<U+16AC4>", "<U+16AC5>", "<U+16AC6>", "<U+16AC7>", "<U+16AC8>", "<U+16AC9>">>,
      <<"<U+16B50>", "<U+16B51>", "<U+16B52>", "<U+16B53>", "<U+16B54>", "<U+16B55>", "<U+16B56>", "<U+16B57>", "<U+16B58>", "<U+16B59>">>,
      <<"<U+1D7CE>", "<U+1D7CF>", "<U+1D7D0>", "<U+1D7D1>", "<U+1D7D2>", "<U+1D7D3>", "<U+1D7D4>", "<U+1D7D5>", "<U+1D7D6>", "<U+1D7D7>">>,
      <<"<U+1D7D8>", "<U+1D7D9>", "<U+1D7DA>", "<U+1D7DB>", "<U+1D7DC>", "<U+1D7DD>", "<U+1D7DE>", "<U+1D7DF>", "<U+1D7E0>", "<U+1D7E1>">>,
      <<"<U+1D7E2>", "<U+1D7E3>", "<U+1D7E4>", "<U+1D7E5>", "<U+1D7E6>", "<U+1D7E7>", "<U+1D7E8>", "<U+1D7E9>", "<U+1D7EA>", "<U+1D7EB>">>,
      <<"<U+1D7EC>", "<U+1D7ED>", "<U+1D7EE>", "<U+1D7EF>", "<U+1D7F0>", "<U+1D7F1>", "<U+1D7F2>", "<U+1D7F3>", "<U+1D7F4>", "<U+1D7F5>">>,
      <<"<U+1D7F6>", "<U+1D7F7>", "<U+1D7F8>", "<U+1D7F9>", "<U+1D7FA>", "<U+1D7FB>", "<U+1D7FC>", "<U+1D7FD>", "<U+1D7FE>", "<U+1D7FF>">>,
      <<"<U+1E140>", "<U+1E141>", "<U+1E142>", "<U+1E143>", "<U+1E144>", "<U+1E145>", "<U+1E146>", "<U+1E147>", "<U+1E148>", "<U+1E149>">>,
      <<"<U+1E2F0>", "<U+1E2F1>", "<U+1E2F2>", "<U+1E2F3>", "<U+1E2F4>", "<U+1E2F5>", "<U+1E2F6>", "<U+1E2F7>", "<U+1E2F8>", "<U+1E2F9>">>,
      <<"<U+1E950>", "<U+1E951>", "<U+1E952>", "<U+1E953>", "<U+1E954>", "<U+1E955>", "<U+1E956>", "<U+1E957>", "<U+1E958>", "<U+1E959>">>,
      <<"<U+1FBF0>", "<U+1FBF1>", "<U+1FBF2>", "<U+1FBF3>", "<U+1FBF4>", "<U+1FBF5>", "<U+1FBF6>", "<U+1FBF7>", "<U+1FBF8>", "<U+1FBF9>">>
    >>

DigitSet == {DigitRows[r][k] : r \in 1..Len(DigitRows), k \in 1..10}

IsDigit(c) == c \in DigitSet

DigitVal(c) == CHOOSE v \in 0..9 : \E r \in 1..Len(DigitRows) : DigitRows[r][v + 1] = c

RECURSIVE DigitsVal(_)
DigitsVal(d) ==
    IF d = <<>> THEN 0 ELSE 10 * DigitsVal(SubSeq(d, 1, Len(d) - 1)) + DigitVal(d[Len(d)])

\* The digits of an integer literal: digits with single underscores between
\* them.
IsLiteral(d) ==
    /\ d # <<>>
    /\ \A i \in 1..Len(d) : IsDigit(d[i]) \/ d[i] = "_"
    /\ \A i \in 1..Len(d) :
          d[i] = "_" => (i > 1 /\ i < Len(d) /\ IsDigit(d[i - 1]) /\ IsDigit(d[i + 1]))

\* The whitespace int() skips around a literal: that of strip() without
\* the separators U+001C to U+001F.
IsIntSpace(c) == IsSpace(c) /\ c \notin {"", "", "", ""}

RECURSIVE IntLStrip(_)
IntLStrip(s) == IF s # <<>> /\ IsIntSpace(Head(s)) THEN IntLStrip(Tail(s)) ELSE s

RECURSIVE IntRStrip(_)
IntRStrip(s) ==
    IF s # <<>> /\ IsIntSpace(s[Len(s)]) THEN IntRStrip(SubSeq(s, 1, Len(s) - 1)) ELSE s

\* int(s) for a string s: surrounding whitespace, one sign and underscores
\* between digits are accepted; None stands for ValueError.
IntOf(s) ==
    LET t == IntRStrip(IntLStrip(s))
        signed == t # <<>> /\ t[1] \in {"+", "-"}
        d == IF signed THEN Tail(t) ELSE t
        n == DigitsVal(SelectSeq(d, IsDigit))
    IN IF ~IsLiteral(d) THEN None
       ELSE Some(IF signed /\ t[1] = "-" THEN 0 - n ELSE n)

DEFAULT_RATE == 16000

\* try: int(params.get("sample_rate") or 16000) except Exception: 16000
SampleRateOf(r) ==
    IF r = None \/ r[1] = <<>> THEN DEFAULT_RATE
    ELSE IF IntOf(r[1]) = None THEN DEFAULT_RATE
    ELSE IntOf(r[1])[1]

PCM == <<"p", "c", "m">>
OGG_OPUS == <<"o", "g", "g", "-", "o", "p", "u", "s">>

\* (params.get("encoding") or "pcm").lower(), "pcm" unless supported
EncodingOf(e) ==
    LET low == Lower(OrElse(e, PCM))
    IN IF low \in {PCM, OGG_OPUS} THEN low ELSE PCM

\* ------------------------------------------------------------------------
\* Inputs
\* ------------------------------------------------------------------------
RawLangs == {Some(<<" ", "e", "n", "_", "U", "S", " ">>), Some(<<"d", "e">>)}

\* Query parameters for the study of the normalisation alone.
LangInputs ==
    RawLangs \cup {None, Some(<<>>), Some(<<"F", "R">>), Some(<<"f", "r", "_", "F", "R">>),
                   Some(<<" ", "e", "n", " ">>), Some(<<"f", "r", "-", "f", "r">>),
                   Some(<<"E", "N", "-", "u", "s">>), Some(<<"e", "n", "g">>),
                   Some(<<" ">>), Some(<<"f", " ", "r">>), Some(<<"e", "n", "\r">>),
                   Some(<<" ", "F", "r", "">>), Some(<<"e", "n", "<U+2003>">>),
                   Some(<<"<U+3000>", "E", "N", "_", "u", "s">>)}

RateInputs ==
    {None, Some(<<>>), Some(<<"8", "0", "0", "0">>), Some(<<"4", "8", "0", "0", "0">>),
     Some(<<" ", "4", "4", "1", "0", "0", "\n">>), Some(<<"+", "8">>),
     Some(<<"0", "0", "7">>), Some(<<"0">>), Some(<<"-", "5">>), Some(<<"-", "0">>),
     Some(<<"a", "b">>), Some(<<"1", ".", "5">>), Some(<<"-">>), Some(<<"+", " ", "8">>),
     Some(<<"1", "6", "k">>), Some(<<" ">>), Some(<<"1", "_", "0", "0", "0">>),
     Some(<<"8", "0", "0", "0", "\r">>), Some(<<"1", "_", "_", "0">>),
     Some(<<"_", "1">>), Some(<<"-", "1", "_", "0">>), Some(<<"", "1", "2">>),
     Some(<<" ", "+", "1", "2", "\f">>), Some(<<"<U+0663>", "<U+0662>">>),
     Some(<<"<U+2003>", "8">>), Some(<<"1", "<U+0663>">>),
     Some(<<"-", "<U+FF11>", "_", "<U+0966>">>)}

EncInputs ==
    {None, Some(<<>>), Some(PCM), Some(<<"P", "C", "M">>), Some(OGG_OPUS),
     Some(<<"O", "g", "g", "-", "O", "P", "U", "S">>), Some(<<" ", "p", "c", "m">>),
     Some(<<"m", "p", "3">>), Some(<<"o", "g", "g">>)}

Chunks == {<<>>, <<7, 7>>}

END == <<"E", "N", "D">>

\* msg["text"] of the text frames, None for a frame that carries neither key.
Texts == {None, Some(<<" ", "e", "n", "d", "\n">>), Some(<<"a", "b">>)}

\* A wider choice of text frames for the study of forward_audio alone.
TextsAll ==
    Texts \cup {Some(<<>>), Some(END), Some(<<"e", "n", "d">>),
                Some(<<" ", "E", "N", "D", " ">>), Some(<<"\t", "E", "n", "D">>),
                Some(<<"a", "b", "c">>), Some(<<"E", "N", "D", "S">>),
                Some(<<"E", " ", "N", "D">>), Some(<<" ", " ">>),
                Some(<<"E", "N", "D", "\r", "\n">>), Some(<<"\f", "e", "n", "d", "">>),
                Some(<<"E", "N", "D", "<U+2003>">>)}

Alt(t) == [transcript |-> t]
Res(p, alts) == [is_partial |-> p, alternatives |-> alts]

EvA == [isTranscript |-> TRUE,
        results |-> Some(<<Res(TRUE, Some(<<Alt(Some(<<"b", "o", "n">>)),
                                             Alt(Some(<<" ", "\r", "<U+2028>">>)),
                                             Alt(Some(<<"n", "e", " ">>))>>)),
                           Res(FALSE, Some(<<Alt(None),
                                              Alt(Some(<<" ", "o", "k", " ">>))>>))>>)]
EvB == [isTranscript |-> TRUE,
        results |-> Some(<<Res(TRUE, None),
                           Res(FALSE, Some(<<Alt(Some(<<"<U+3000>", "a", "\t">>))>>))>>)]
EvBlank == [isTranscript |-> TRUE, results |-> None]
EvOther == [isTranscript |-> FALSE, results |-> None]

Events == {EvA, EvB, EvBlank, EvOther}

\* Exceptions: "disc" is WebSocketDisconnect, the others are plain Exceptions
\* named after the call that raised them.
NoExc == "none"
Errs == {"recvErr", "pushErr", "upErr", "sendErr", "openErr"}

\* ------------------------------------------------------------------------
\* relay_transcripts: the nested loops over results and alternatives
\* ------------------------------------------------------------------------
Results(ev) == OrElse(ev.results, <<>>)
Alternatives(res) == OrElse(res.alternatives, <<>>)

\* text = (alt.transcript or "").strip()
TextOf(alt) == Strip(OrElse(alt.transcript, <<>>))

\* is_final = not getattr(res, "is_partial", False)
IsFinal(res) == ~res.is_partial

\* The position of the first alternative at or after <<ri, ai>> that passes
\* `if not text: continue`; <<0, 0>> when the loops run out.
RECURSIVE FirstFromRawCheck(_, _, _)
FirstFromRawCheck(ev, ri, ai) ==
    IF ri > Len(Results(ev)) THEN <<0, 0>>
    ELSE IF ai > Len(Alternatives(Results(ev)[ri])) THEN FirstFromRawCheck(ev, ri + 1, 1)
    ELSE IF OrElse(Alternatives(Results(ev)[ri])[ai].transcript, <<>>) # <<>> THEN <<ri, ai>>
    ELSE FirstFromRawCheck(ev, ri, ai + 1)

RECURSIVE FirstFromSkipResult(_, _, _)
FirstFromSkipResult(ev, ri, ai) ==
    IF ri > Len(Results(ev)) THEN <<0, 0>>
    ELSE IF ai > Len(Alternatives(Results(ev)[ri])) THEN FirstFromSkipResult(ev, ri + 1, 1)
    ELSE IF TextOf(Alternatives(Results(ev)[ri])[ai]) # <<>> THEN <<ri, ai>>
    ELSE FirstFromSkipResult(ev, ri + 1, 1)

RECURSIVE FirstFromOnePerResult(_, _, _)
FirstFromOnePerResult(ev, ri, ai) ==
    IF ri > Len(Results(ev)) THEN <<0, 0>>
    ELSE IF ai > Len(Alternatives(Results(ev)[ri])) THEN FirstFromOnePerResult(ev, ri + 1, 1)
    ELSE IF ai > 1 /\ TextOf(Alternatives(Results(ev)[ri])[ai - 1]) # <<>>
         THEN FirstFromOnePerResult(ev, ri + 1, 1)
    ELSE IF TextOf(Alternatives(Results(ev)[ri])[ai]) # <<>> THEN <<ri, ai>>
    ELSE FirstFromOnePerResult(ev, ri, ai + 1)

RECURSIVE FirstFrom(_, _, _)
FirstFrom(ev, ri, ai) ==
    IF ri > Len(Results(ev)) THEN <<0, 0>>
    ELSE IF ai > Len(Alternatives(Results(ev)[ri])) THEN FirstFrom(ev, ri + 1, 1)
    ELSE IF TextOf(Alternatives(Results(ev)[ri])[ai]) # <<>> THEN <<ri, ai>>
    ELSE FirstFrom(ev, ri, ai + 1)

Payload(ev, pos, l) ==
    [type |-> IF IsFinal(Results(ev)[pos[1]]) THEN "final" ELSE "partial",
     text |-> TextOf(Alternatives(Results(ev)[pos[1]])[pos[2]]),
     language |-> l]

ErrorPayload(e) == [type |-> "error", message |-> e]

\* ------------------------------------------------------------------------
\* Initial state: the connection has been accepted
\* ------------------------------------------------------------------------
\* Everything but the query parameters.
Accepted ==
    /\ lang = <<>> /\ sampleRate = 0 /\ encoding = <<>>
    /\ msgText = None /\ endFailed = FALSE
    /\ orch = "init"
    /\ orchExc = NoExc
    /\ gathered = "pending"
    /\ fa = "idle" /\ faPend = NoExc /\ faExc = NoExc /\ faExit = "none"
    /\ rt = "idle" /\ rtExc = NoExc /\ rtPos = <<0, 0>>
    /\ conn = "open"
    /\ stats = [bytes_in |-> 0, frames_in |-> 0, partials_out |-> 0, finals_out |-> 0]
    /\ recvBin = <<>>
    /\ pushed = <<>>
    /\ closeCalls = 0
    /\ evlog = <<>>
    /\ sent = <<>>
    /\ errAttempts = <<>>
    /\ closeAttempts = 0
    /\ streamErrs = {}

Init ==
    /\ rawLang \in RawLangs
    /\ rawRate = None
    /\ rawEnc = None
    /\ Accepted

orchVars == <<orch, orchExc, errAttempts, closeAttempts>>
faVars == <<fa, faPend, faExc, faExit, msgText, endFailed, recvBin, pushed, closeCalls>>
rtVars == <<rt, rtExc, rtPos, evlog>>
paramVars == <<rawLang, rawRate, rawEnc, lang, sampleRate, encoding>>

\* ------------------------------------------------------------------------
\* asyncio.gather(forward_audio(), relay_transcripts())
\* ------------------------------------------------------------------------
\* A child finished with exc (NoExc for a normal return): the first exception
\* completes the outer future at once, a normal return completes it only
\* when the other child has finished too.  Children are never cancelled.
TaskDoneNeverOk(exc, otherDone) ==
    /\ gathered' = IF gathered # "pending" THEN gathered
                   ELSE IF exc # NoExc THEN exc
                   ELSE "pending"
    /\ streamErrs' = IF orch = "gather" /\ exc \in Errs
                     THEN streamErrs \cup {exc} ELSE streamErrs

TaskDone(exc, otherDone) ==
    /\ gathered' = IF gathered # "pending" THEN gathered
                   ELSE IF exc # NoExc THEN exc
                   ELSE IF otherDone THEN "ok" ELSE "pending"
    /\ streamErrs' = IF orch = "gather" /\ exc \in Errs
                     THEN streamErrs \cup {exc} ELSE streamErrs

\* ------------------------------------------------------------------------
\* ws_transcribe
\* ------------------------------------------------------------------------
\* The two except clauses of ws_transcribe, entered with exception e:
\* WebSocketDisconnect returns at once, any other exception calls
\* send_json({"type": "error", "message": str(e)}).
Handler(e) ==
    IF e = "disc"
    THEN /\ orch' = "closed"
         /\ UNCHANGED <<orchExc, errAttempts>>
    ELSE /\ orch' = "errSend"
         /\ orchExc' = e
         /\ errAttempts' = Append(errAttempts, ErrorPayload(e))

\* Parameter normalisation up to the call of start_stream_transcription.
StartStream ==
    /\ orch = "init"
    /\ lang' = _normalize_lang(rawLang)
    /\ sampleRate' = SampleRateOf(rawRate)
    /\ encoding' = EncodingOf(rawEnc)
    /\ orch' = "opening"
    /\ UNCHANGED <<rawLang, rawRate, rawEnc, orchExc, errAttempts, closeAttempts, gathered, faVars,
                   rtVars, conn, stats, sent, streamErrs>>

\* start_stream_transcription returned: stats is created, gather wraps both
\* coroutines in tasks, which are scheduled and not yet started, and
\* ws_transcribe awaits the gathering future.
OpenOk ==
    /\ orch = "opening"
    /\ orch' = "gather"
    /\ stats' = [bytes_in |-> 0, frames_in |-> 0, partials_out |-> 0, finals_out |-> 0]
    /\ UNCHANGED <<paramVars, orchExc, errAttempts, closeAttempts, gathered, faVars,
                   rtVars, conn, sent, streamErrs>>

\* start_stream_transcription raised.
OpenFail ==
    /\ orch = "opening"
    /\ Handler("openErr")
    /\ UNCHANGED <<paramVars, closeAttempts, gathered, faVars, rtVars, conn, stats,
                   sent, streamErrs>>

\* The await of gather completes.  The callback that wakes ws_transcribe is
\* queued behind the first step of relay_transcripts.
OrchResume ==
    /\ orch = "gather"
    /\ gathered # "pending"
    /\ rt # "idle"
    /\ IF gathered = "ok"
       THEN orch' = "closed" /\ UNCHANGED <<orchExc, errAttempts>>
       ELSE Handler(gathered)
    /\ UNCHANGED <<paramVars, closeAttempts, gathered, faVars, rtVars, conn, stats,
                   sent, streamErrs>>

\* The send of the error payload completes, or fails and is swallowed; the
\* finally clause then calls websocket.close().
ErrSendDoneNoClose ==
    /\ orch = "errSend"
    /\ sent' = IF conn = "open" THEN Append(sent, ErrorPayload(orchExc)) ELSE sent
    /\ orch' = "errClose"
    /\ UNCHANGED <<paramVars, orchExc, errAttempts, closeAttempts, gathered, faVars,
                   rtVars, conn, stats, streamErrs>>

ErrSendDone ==
    /\ orch = "errSend"
    /\ sent' = IF conn = "open" THEN Append(sent, ErrorPayload(orchExc)) ELSE sent
    /\ closeAttempts' = closeAttempts + 1
    /\ orch' = "errClose"
    /\ UNCHANGED <<paramVars, orchExc, errAttempts, gathered, faVars, rtVars, conn,
                   stats, streamErrs>>

\* websocket.close() completes, or fails and is swallowed; ws_transcribe returns.
CloseDone ==
    /\ orch = "errClose"
    /\ conn' = IF conn = "open" THEN "serverClosed" ELSE conn
    /\ orch' = "closed"
    /\ UNCHANGED <<paramVars, orchExc, errAttempts, closeAttempts, gathered, faVars,
                   rtVars, stats, sent, streamErrs>>

\* ------------------------------------------------------------------------
\* forward_audio
\* ------------------------------------------------------------------------
\* The loop is left with exception exc (NoExc for a break): the finally
\* clause calls stream.input_stream.end_stream().
FaFinallyOnlyOnBreak(exc, why) ==
    /\ faPend' = exc
    /\ faExit' = why
    /\ closeCalls' = IF exc = NoExc THEN closeCalls + 1 ELSE closeCalls
    /\ fa' = "closing"

FaFinally(exc, why) ==
    /\ faPend' = exc
    /\ faExit' = why
    /\ closeCalls' = closeCalls + 1
    /\ fa' = "closing"

\* The first step of the task of forward_audio: it runs up to the await of
\* websocket.receive().
FaStart ==
    /\ orch = "gather"
    /\ fa = "idle"
    /\ fa' = "recv"
    /\ UNCHANGED <<paramVars, orchVars, gathered, faPend, faExc, faExit, msgText,
                   endFailed, recvBin, pushed, closeCalls, rtVars, conn, stats, sent,
                   streamErrs>>

\* receive() returned a frame with bytes: count it and call send_audio_event.
\* An await that finds its result ready does not suspend, so forward_audio
\* may run on through receives before relay_transcripts has started.
FaRecvBinarySkipEmpty(chunk) ==
    /\ fa = "recv"
    /\ conn = "open"
    /\ Len(recvBin) < MaxFrames
    /\ recvBin' = Append(recvBin, chunk)
    /\ stats' = [stats EXCEPT !.bytes_in = @ + Len(chunk), !.frames_in = @ + 1]
    /\ pushed' = IF chunk = <<>> THEN pushed ELSE Append(pushed, chunk)
    /\ fa' = IF chunk = <<>> THEN "recv" ELSE "push"
    /\ msgText' = None
    /\ UNCHANGED <<paramVars, orchVars, gathered, faPend, faExc, faExit, endFailed,
                   closeCalls, rtVars, conn, sent, streamErrs>>

FaRecvBinaryCountNonEmpty(chunk) ==
    /\ fa = "recv"
    /\ conn = "open"
    /\ Len(recvBin) < MaxFrames
    /\ recvBin' = Append(recvBin, chunk)
    /\ stats' = [stats EXCEPT !.bytes_in = @ + Len(chunk),
                              !.frames_in = @ + (IF chunk = <<>> THEN 0 ELSE 1)]
    /\ pushed' = Append(pushed, chunk)
    /\ fa' = "push"
    /\ msgText' = None
    /\ UNCHANGED <<paramVars, orchVars, gathered, faPend, faExc, faExit, endFailed,
                   closeCalls, rtVars, conn, sent, streamErrs>>

FaRecvBinary(chunk) ==
    /\ fa = "recv"
    /\ conn = "open"
    /\ Len(recvBin) < MaxFrames
    /\ recvBin' = Append(recvBin, chunk)
    /\ stats' = [stats EXCEPT !.bytes_in = @ + Len(chunk), !.frames_in = @ + 1]
    /\ pushed' = Append(pushed, chunk)
    /\ fa' = "push"
    /\ msgText' = None
    /\ UNCHANGED <<paramVars, orchVars, gathered, faPend, faExc, faExit, endFailed,
                   closeCalls, rtVars, conn, sent, streamErrs>>

\* receive() returned a frame without bytes: END breaks, anything else is ignored.
FaRecvTextNoStrip(t) ==
    /\ fa = "recv"
    /\ conn = "open"
    /\ IF t # None /\ Upper(t[1]) = END
       THEN FaFinally(NoExc, "end")
       ELSE UNCHANGED <<fa, faPend, faExit, closeCalls>>
    /\ msgText' = t
    /\ UNCHANGED <<paramVars, orchVars, gathered, faExc, endFailed, recvBin, pushed,
                   rtVars, conn, stats, sent, streamErrs>>

FaRecvText(t) ==
    /\ fa = "recv"
    /\ conn = "open"
    /\ IF t # None /\ Upper(Strip(t[1])) = END
       THEN FaFinally(NoExc, "end")
       ELSE UNCHANGED <<fa, faPend, faExit, closeCalls>>
    /\ msgText' = t
    /\ UNCHANGED <<paramVars, orchVars, gathered, faExc, endFailed, recvBin, pushed,
                   rtVars, conn, stats, sent, streamErrs>>

\* receive() returned the websocket.disconnect message.
FaRecvDisconnect ==
    /\ fa = "recv"
    /\ conn # "open"
    /\ FaFinally(NoExc, "disconnect")
    /\ msgText' = None
    /\ UNCHANGED <<paramVars, orchVars, gathered, faExc, endFailed, recvBin, pushed,
                   rtVars, conn, stats, sent, streamErrs>>

\* receive() raised.
FaRecvRaise ==
    /\ fa = "recv"
    /\ FaFinally("recvErr", "exception")
    /\ UNCHANGED <<paramVars, orchVars, gathered, faExc, msgText, endFailed, recvBin,
                   pushed, rtVars, conn, stats, sent, streamErrs>>

\* send_audio_event returned: the loop calls receive() again.
FaPushOk ==
    /\ fa = "push"
    /\ fa' = "recv"
    /\ UNCHANGED <<paramVars, orchVars, gathered, faPend, faExc, faExit, msgText,
                   endFailed, recvBin, pushed, closeCalls, rtVars, conn, stats, sent,
                   streamErrs>>

\* send_audio_event raised.
FaPushFail ==
    /\ fa = "push"
    /\ FaFinally("pushErr", "exception")
    /\ UNCHANGED <<paramVars, orchVars, gathered, faExc, msgText, endFailed, recvBin,
                   pushed, rtVars, conn, stats, sent, streamErrs>>

\* end_stream returned (ok) or raised and was swallowed: forward_audio
\* finishes with the exception that left the loop, if any.
FaEndStreamDoneRaises(ok) ==
    /\ fa = "closing"
    /\ fa' = "done"
    /\ endFailed' = ~ok
    /\ faExc' = IF ok THEN faPend ELSE "pushErr"
    /\ TaskDone(IF ok THEN faPend ELSE "pushErr", rt = "done")
    /\ UNCHANGED <<paramVars, orchVars, faPend, faExit, msgText, recvBin, pushed,
                   closeCalls, rtVars, conn, stats, sent>>

FaEndStreamDone(ok) ==
    /\ fa = "closing"
    /\ fa' = "done"
    /\ endFailed' = ~ok
    /\ faExc' = faPend
    /\ TaskDone(faPend, rt = "done")
    /\ UNCHANGED <<paramVars, orchVars, faPend, faExit, msgText, recvBin, pushed,
                   closeCalls, rtVars, conn, stats, sent>>

\* ------------------------------------------------------------------------
\* relay_transcripts
\* ------------------------------------------------------------------------
\* Run the loops on from <<ri, ai>> up to the next send_json, counting the
\* payload before it is sent, or back to the await of the next event.
RtAdvanceCountsFrames(ev, ri, ai) ==
    LET pos == FirstFrom(ev, ri, ai) IN
    IF pos = <<0, 0>>
    THEN /\ rt' = "next"
         /\ rtPos' = <<0, 0>>
         /\ UNCHANGED stats
    ELSE /\ rt' = "send"
         /\ rtPos' = pos
         /\ stats' = IF IsFinal(Results(ev)[pos[1]])
                     THEN [stats EXCEPT !.finals_out = @ + 1, !.frames_in = @ + 1]
                     ELSE [stats EXCEPT !.partials_out = @ + 1]

RtAdvance(ev, ri, ai) ==
    LET pos == FirstFrom(ev, ri, ai) IN
    IF pos = <<0, 0>>
    THEN /\ rt' = "next"
         /\ rtPos' = <<0, 0>>
         /\ UNCHANGED stats
    ELSE /\ rt' = "send"
         /\ rtPos' = pos
         /\ stats' = IF IsFinal(Results(ev)[pos[1]])
                     THEN [stats EXCEPT !.finals_out = @ + 1]
                     ELSE [stats EXCEPT !.partials_out = @ + 1]

\* The first step of the task of relay_transcripts, which follows that of
\* forward_audio in the queue of the event loop: it runs up to the await of
\* the first event.
RtStart ==
    /\ rt = "idle"
    /\ fa # "idle"
    /\ rt' = "next"
    /\ UNCHANGED <<paramVars, orchVars, gathered, faVars, rtExc, rtPos, evlog, conn,
                   stats, sent, streamErrs>>

\* stream.output_stream yielded an event.
RtNext(ev) ==
    /\ rt = "next"
    /\ IF ev.isTranscript
       THEN /\ Len(evlog) < MaxEvents
            /\ evlog' = Append(evlog, ev)
            /\ RtAdvance(ev, 1, 1)
       ELSE UNCHANGED <<rt, rtPos, evlog, stats>>
    /\ UNCHANGED <<paramVars, orchVars, gathered, faVars, rtExc, conn, sent, streamErrs>>

\* stream.output_stream is exhausted: relay_transcripts returns.
RtEnd ==
    /\ rt = "next"
    /\ rt' = "done"
    /\ TaskDone(NoExc, fa = "done")
    /\ UNCHANGED <<paramVars, orchVars, faVars, rtExc, rtPos, evlog, conn, stats, sent>>

\* stream.output_stream raised.
RtRaise ==
    /\ rt = "next"
    /\ rt' = "done"
    /\ rtExc' = "upErr"
    /\ TaskDone("upErr", fa = "done")
    /\ UNCHANGED <<paramVars, orchVars, faVars, rtPos, evlog, conn, stats, sent>>

\* send_json returned: the payload is on the wire and the loops go on.
RtSendOk ==
    /\ rt = "send"
    /\ conn = "open"
    /\ sent' = Append(sent, Payload(evlog[Len(evlog)], rtPos, lang))
    /\ RtAdvance(evlog[Len(evlog)], rtPos[1], rtPos[2] + 1)
    /\ UNCHANGED <<paramVars, orchVars, gathered, faVars, rtExc, evlog, conn, streamErrs>>

\* send_json raised because the connection is gone.
RtSendFail(e) ==
    /\ rt = "send"
    /\ conn # "open"
    /\ rt' = "done"
    /\ rtExc' = e
    /\ TaskDone(e, fa = "done")
    /\ UNCHANGED <<paramVars, orchVars, faVars, rtPos, evlog, conn, stats, sent>>

\* ------------------------------------------------------------------------
\* The client
\* ------------------------------------------------------------------------
ClientDisconnect ==
    /\ conn = "open"
    /\ conn' = "clientGone"
    /\ UNCHANGED <<paramVars, orchVars, gathered, faVars, rtVars, stats, sent, streamErrs>>

Next ==
    \/ StartStream
    \/ OpenOk
    \/ OpenFail
    \/ OrchResume
    \/ ErrSendDone
    \/ CloseDone
    \/ FaStart
    \/ \E chunk \in Chunks : FaRecvBinary(chunk)
    \/ \E t \in Texts : FaRecvText(t)
    \/ FaRecvDisconnect
    \/ FaRecvRaise
    \/ FaPushOk
    \/ FaPushFail
    \/ \E ok \in BOOLEAN : FaEndStreamDone(ok)
    \/ RtStart
    \/ \E ev \in Events : RtNext(ev)
    \/ RtEnd
    \/ RtRaise
    \/ RtSendOk
    \/ \E e \in {"disc", "sendErr"} : RtSendFail(e)
    \/ ClientDisconnect

Spec == Init /\ [][Next]_vars

TypeOK ==
    /\ orch \in {"init", "opening", "gather", "errSend", "errClose", "closed"}
    /\ fa \in {"idle", "recv", "push", "closing", "done"}
    /\ rt \in {"idle", "next", "send", "done"}
    /\ conn \in {"open", "clientGone", "serverClosed"}
    /\ gathered \in {"pending", "ok", "disc"} \cup Errs

\* ------------------------------------------------------------------------
\* Fair scheduling of the event loop.  The loop runs every callback that is
\* ready: the code of ws_transcribe up to its first await on the sink, the
\* first step of each task gather created, and the wake-up of ws_transcribe
\* once gather's future is done.  It guarantees nothing about the calls the
\* coroutines are parked on: receive, send_json, close,
\* start_stream_transcription, send_audio_event, end_stream and the next
\* upstream event complete only when the client or the service makes them.
\* ------------------------------------------------------------------------
SpecFair ==
    /\ Spec
    /\ WF_vars(StartStream)
    /\ WF_vars(FaStart)
    /\ WF_vars(RtStart)
    /\ WF_vars(OrchResume)

\* ------------------------------------------------------------------------
\* Properties
\* ------------------------------------------------------------------------
IsPrefix(a, b) == Len(a) <= Len(b) /\ SubSeq(b, 1, Len(a)) = a

IsTranscriptMsg(m) == m.type \in {"partial", "final"}
IsErrorMsg(m) == m.type = "error"

Transcripts(msgs) == SelectSeq(msgs, IsTranscriptMsg)
ErrorMsgs(msgs) == SelectSeq(msgs, IsErrorMsg)

TaskOver(pc) == pc \in {"idle", "done"}

\* C1: once the loop of forward_audio has been left, by END, by a disconnect
\* frame or by an exception of receive or of the push, end_stream has been
\* called exactly once, and it is not called while the loop runs.
C1_CloseExactlyOnce ==
    /\ fa \in {"closing", "done"} => closeCalls = 1
    /\ fa \in {"idle", "recv", "push"} => closeCalls = 0

C1_Witness == fa = "done" /\ faExc = "pushErr" /\ closeCalls = 1

\* C2: when ws_transcribe has returned from a session whose upstream stream
\* was opened, end_stream has been called.
C2_SinkClosedWhenClosed ==
    (orch = "closed" /\ fa # "idle") => closeCalls >= 1

\* C3: ws_transcribe returns only after forward_audio and relay_transcripts
\* have both finished.
C3_StructuredJoin ==
    orch = "closed" => TaskOver(fa) /\ TaskOver(rt)

\* C4 as stated: if a task failed with an exception other than a client
\* disconnect while gather was awaited, the session ends with exactly one
\* attempt to send an error payload and one attempt to close.
C4_AnyStreamErrorReported ==
    (orch = "closed" /\ streamErrs # {}) =>
        (Len(errAttempts) = 1 /\ closeAttempts = 1)

\* C5: if start_stream_transcription fails, one send of an error payload is
\* attempted, the connection is closed, and the two tasks never start: no
\* frame is read, nothing is pushed, no transcript is sent.
C5_OpenFailure ==
    orchExc = "openErr" =>
        /\ errAttempts = <<ErrorPayload("openErr")>>
        /\ orch = "errSend" => closeAttempts = 0
        /\ orch \in {"errClose", "closed"} => closeAttempts = 1
        /\ orch = "closed" => conn # "open"
        /\ fa = "idle" /\ rt = "idle"
        /\ recvBin = <<>> /\ pushed = <<>> /\ closeCalls = 0 /\ evlog = <<>>
        /\ Transcripts(sent) = <<>>
        /\ stats.frames_in = 0 /\ stats.partials_out = 0 /\ stats.finals_out = 0

C5_Witness ==
    orchExc = "openErr" /\ orch = "closed" /\ sent = <<>> /\ closeAttempts = 1

\* C6: if forward_audio left its loop on a disconnect frame, it raises
\* nothing, end_stream has been called, no error payload reaches the client,
\* and a send of relay_transcripts that fails on the closed connection does
\* not make the orchestrator report an error.
C6_SilentDisconnect ==
    faExit = "disconnect" =>
        /\ faPend = NoExc /\ faExc = NoExc
        /\ closeCalls = 1
        /\ ErrorMsgs(sent) = <<>>
        /\ rtExc \in {"disc", "sendErr"} => errAttempts = <<>>

\* The completions of the calls ws_transcribe, forward_audio and
\* relay_transcripts await on the client connection and on the sink.  The
\* next upstream event is not among them.
OrchStep == StartStream \/ OpenOk \/ OpenFail \/ OrchResume \/ ErrSendDone \/ CloseDone

FaStep ==
    \/ FaStart
    \/ \E chunk \in Chunks : FaRecvBinary(chunk)
    \/ \E t \in Texts : FaRecvText(t)
    \/ FaRecvDisconnect
    \/ FaRecvRaise
    \/ FaPushOk
    \/ FaPushFail
    \/ \E ok \in BOOLEAN : FaEndStreamDone(ok)

RtSendStep == RtSendOk \/ \E e \in {"disc", "sendErr"} : RtSendFail(e)

\* The hypothesis of C7, "fair scheduling of the two tasks", read in the
\* claim's favour: no call on the client connection or on the sink stays
\* pending forever.  Only the upstream output stream is left free.
TasksFairlyScheduled ==
    /\ WF_vars(OrchStep) /\ WF_vars(FaStep) /\ WF_vars(RtSendStep)

\* C7: if the two tasks are fairly scheduled, then once the client
\* connection is closed both tasks eventually terminate and ws_transcribe
\* returns, whatever the upstream does.
C7_CancellationLiveness ==
    TasksFairlyScheduled =>
        ((conn # "open") ~> (orch = "closed" /\ TaskOver(fa) /\ TaskOver(rt)))

\* The state the relay is left in: connection closed, forward_audio
\* finished, relay_transcripts awaiting the next upstream event.
C7_RelayParked ==
    /\ conn # "open" /\ fa = "done" /\ rt = "next"
    /\ orch = "gather" /\ gathered = "pending"

\* In that state no step of the orchestrator, of forward_audio or of a send
\* is possible: every step is a step of the upstream output stream.
C7_ParkedOnlyUpstream ==
    [][C7_RelayParked => (evlog' # evlog \/ rt' = "done")]_vars

IsBlank(text) == \A i \in 1..Len(text) : IsSpace(text[i])

\* C8: no partial or final payload that was sent has an empty or
\* whitespace-only text.
C8_NoBlankText ==
    \A i \in 1..Len(sent) : IsTranscriptMsg(sent[i]) => ~IsBlank(sent[i].text)

C8_Witness ==
    /\ evlog = <<EvBlank, EvA>> /\ rt = "next"
    /\ Len(Transcripts(sent)) = 3

\* The reference relay: the trimmed non-blank transcripts of the events, in
\* order, each tagged final iff its result is not partial.
Concat(seqs) ==
    LET RECURSIVE Cat(_)
        Cat(i) == IF i > Len(seqs) THEN <<>> ELSE seqs[i] \o Cat(i + 1)
    IN Cat(1)

Trim(text) ==
    LET keep == {i \in 1..Len(text) : ~IsSpace(text[i])} IN
    IF keep = {} THEN <<>>
    ELSE SubSeq(text, CHOOSE i \in keep : \A j \in keep : i <= j,
                      CHOOSE i \in keep : \A j \in keep : i >= j)

RefResult(res, l) ==
    LET alts == IF res.alternatives = None THEN <<>> ELSE res.alternatives[1]
        texts == [i \in 1..Len(alts) |->
                     IF alts[i].transcript = None THEN <<>>
                     ELSE Trim(alts[i].transcript[1])]
        kept == SelectSeq(texts, LAMBDA t : t # <<>>)
    IN [i \in 1..Len(kept) |->
           [type |-> IF res.is_partial THEN "partial" ELSE "final",
            text |-> kept[i], language |-> l]]

RefEvent(ev, l) ==
    LET rs == IF ev.results = None THEN <<>> ELSE ev.results[1]
    IN Concat([i \in 1..Len(rs) |-> RefResult(rs[i], l)])

RefRelay(evs, l) == Concat([i \in 1..Len(evs) |-> RefEvent(evs[i], l)])

\* C9: the transcripts sent are, in order, the reference relay of the events
\* taken so far, with the language of the session; while a send is pending
\* only payloads of the last event taken are outstanding, and when
\* relay_transcripts awaits the next event or has left its loop without a
\* failed send, nothing is outstanding.
C9_RelayOrder ==
    LET out == Transcripts(sent)
        ref == RefRelay(evlog, lang)
    IN /\ IsPrefix(out, ref)
       /\ (rt = "next" \/ (rt = "done" /\ rtExc \in {NoExc, "upErr"})) => out = ref
       /\ rt = "send" =>
              /\ Len(out) < Len(ref)
              /\ Len(out) >= Len(RefRelay(SubSeq(evlog, 1, Len(evlog) - 1), lang))
              /\ ref[Len(out) + 1] = Payload(evlog[Len(evlog)], rtPos, lang)

C9_Witness ==
    /\ rt = "done" /\ rtExc = NoExc /\ evlog = <<EvA, EvB>>
    /\ lang = EN_US
    /\ sent = << [type |-> "partial", text |-> <<"b", "o", "n">>, language |-> EN_US],
                 [type |-> "partial", text |-> <<"n", "e">>, language |-> EN_US],
                 [type |-> "final", text |-> <<"o", "k">>, language |-> EN_US],
                 [type |-> "final", text |-> <<"a">>, language |-> EN_US] >>

NoForwardAfterExit ==
    fa \in {"closing", "done"} => (recvBin' = recvBin /\ pushed' = pushed)

\* C10: the chunks pushed to the sink are the chunks of the binary frames
\* read from the client, in the same order, none skipped or repeated, and
\* once the loop is left no further frame is read or pushed.
C10_ForwardOrder ==
    /\ [](IsPrefix(pushed, recvBin) /\ Len(pushed) = Len(recvBin))
    /\ [][NoForwardAfterExit]_vars

C10_Witness ==
    /\ fa = "done" /\ faExit = "end"
    /\ pushed = <<<<7, 7>>, <<>>>>

RECURSIVE SumLen(_)
SumLen(frames) ==
    IF frames = <<>> THEN 0 ELSE Len(Head(frames)) + SumLen(Tail(frames))

\* C12: in every reachable state frames_in is the number of binary frames
\* forward_audio has received and bytes_in the sum of their lengths, frames
\* of length zero and frames whose push failed included.
C12_InboundCounters ==
    /\ stats.frames_in = Len(recvBin)
    /\ stats.bytes_in = SumLen(recvBin)

\* An empty frame was counted and the push of the frame after it failed.
C12_Witness ==
    /\ recvBin = <<<<>>, <<7, 7>>>>
    /\ faExc = "pushErr"
    /\ stats.frames_in = 2 /\ stats.bytes_in = 2

\* In this step no task takes a binary or text frame from receive() and
\* none calls send_json.
NoClientIO ==
    /\ rt' = "send" => rt = "send"
    /\ recvBin' = recvBin
    /\ msgText' # msgText => msgText' = None

ClosedIsQuiet == orch = "closed" => NoClientIO

\* C15: once ws_transcribe has returned, neither forward_audio reads
\* another frame from the client connection nor relay_transcripts calls
\* send_json on it.
C15_ClosedTerminal == [][ClosedIsQuiet]_vars

\* The step in which end_stream completes touches nothing of the relay and
\* nothing the client sees.
EndStreamIsLocal ==
    (fa = "closing" /\ fa' = "done") => UNCHANGED <<rtVars, sent, stats, conn, orchVars>>

\* The error handler goes from the send to the close and from the close to
\* the return, whether or not they succeed.
HandlerRunsThrough ==
    /\ (orch = "errSend" /\ orch' # orch) =>
          (orch' = "errClose" /\ closeAttempts' = closeAttempts + 1 /\ orchExc' = orchExc)
    /\ (orch = "errClose" /\ orch' # orch) => (orch' = "closed" /\ orchExc' = orchExc)

\* C16: a failure of end_stream is swallowed, forward_audio finishing with
\* the outcome of its loop, causing no error message and leaving the relay
\* alone; a failure of the error send or of the close is swallowed too,
\* ws_transcribe going on to return.
C16_CleanupSwallowed ==
    /\ [](fa = "done" => faExc = faPend)
    /\ []((endFailed /\ faPend = NoExc /\ rtExc = NoExc) =>
             (errAttempts = <<>> /\ gathered \in {"pending", "ok"}))
    /\ [][EndStreamIsLocal /\ HandlerRunsThrough]_vars

\* end_stream failed after receive had raised, then the error send and the
\* close failed on a connection the client had left, and ws_transcribe
\* returned.
C16_Witness ==
    /\ endFailed /\ fa = "done" /\ faExc = "recvErr"
    /\ orch = "closed" /\ conn = "clientGone"
    /\ errAttempts = <<ErrorPayload("recvErr")>> /\ closeAttempts = 1
    /\ sent = <<>>

\* Once an error payload is among the messages sent, no step sends a
\* transcript payload.
NoTranscriptAfterError ==
    ErrorMsgs(sent) # <<>> => Transcripts(sent') = Transcripts(sent)

\* C17: after the error message of a session has been sent, no partial or
\* final message is sent to the client; the error message is the last
\* message of the session.
C17_ErrorIsLast == [][NoTranscriptAfterError]_vars

IsPartialMsg(m) == m.type = "partial"
IsFinalMsg(m) == m.type = "final"

\* C18: when relay_transcripts has terminated, normally or on a failed
\* send, partials_out is the number of partial payloads whose send
\* completed and finals_out the number of final payloads whose send
\* completed.
C18_OutboundCounters ==
    rt = "done" =>
      /\ stats.partials_out = Len(SelectSeq(sent, IsPartialMsg))
      /\ stats.finals_out = Len(SelectSeq(sent, IsFinalMsg))

ZeroStats == [bytes_in |-> 0, frames_in |-> 0, partials_out |-> 0, finals_out |-> 0]

\* Who may write what in one step, told by whose variables the step changes.
SingleWriter ==
    /\ faVars' # faVars =>
          /\ stats'.partials_out = stats.partials_out
          /\ stats'.finals_out = stats.finals_out
    /\ (rtVars' # rtVars \/ Transcripts(sent') # Transcripts(sent)) =>
          /\ stats'.frames_in = stats.frames_in
          /\ stats'.bytes_in = stats.bytes_in
    /\ (orchVars' # orchVars \/ ErrorMsgs(sent') # ErrorMsgs(sent)) =>
          \/ stats' = stats
          \/ orch = "opening" /\ orch' = "gather" /\ stats' = ZeroStats
    /\ conn' # conn => stats' = stats

Monotonic ==
    /\ stats'.frames_in >= stats.frames_in
    /\ stats'.bytes_in >= stats.bytes_in
    /\ stats'.partials_out >= stats.partials_out
    /\ stats'.finals_out >= stats.finals_out

\* C20: forward_audio never writes partials_out or finals_out,
\* relay_transcripts never writes frames_in or bytes_in, ws_transcribe
\* only creates the counters at zero, and no counter ever decreases.
C20_SingleWriterMonotonic == [][SingleWriter /\ Monotonic]_vars

\* Both tasks have counted and ws_transcribe has returned.
C20_Witness ==
    /\ orch = "closed"
    /\ stats.frames_in = 2 /\ stats.bytes_in = 4
    /\ stats.partials_out = 1 /\ stats.finals_out = 1

\* ------------------------------------------------------------------------
\* The graceful session: the connection stays up, no call fails except
\* possibly end_stream, and the upstream closes its output once end_stream
\* has completed.  The event loop resumes every
\* coroutine whose awaited call has completed.
\* ------------------------------------------------------------------------
UpstreamCloses == fa = "done" /\ ~endFailed /\ RtEnd

NextGraceful ==
    \/ StartStream
    \/ OpenOk
    \/ OrchResume
    \/ FaStart
    \/ \E chunk \in Chunks : FaRecvBinary(chunk)
    \/ \E t \in Texts : FaRecvText(t)
    \/ FaPushOk
    \/ \E ok \in BOOLEAN : FaEndStreamDone(ok)
    \/ RtStart
    \/ \E ev \in Events : RtNext(ev)
    \/ RtEnd
    \/ RtSendOk

SpecGraceful ==
    /\ Init /\ [][NextGraceful]_vars
    /\ WF_vars(StartStream \/ OpenOk \/ OrchResume)
    /\ WF_vars(FaStart \/ FaPushOk \/ \E ok \in BOOLEAN : FaEndStreamDone(ok))
    /\ WF_vars(RtStart \/ RtSendOk)
    /\ WF_vars(UpstreamCloses)

GracefulDone ==
    /\ orch = "closed" /\ gathered = "ok"
    /\ fa = "done" /\ faExc = NoExc
    /\ rt = "done" /\ rtExc = NoExc
    /\ Transcripts(sent) = RefRelay(evlog, lang)
    /\ sent = Transcripts(sent)
    /\ errAttempts = <<>>

\* C19: when the client has sent END and the upstream closes its output
\* once the sink is closed, forward_audio and relay_transcripts both
\* complete and ws_transcribe returns, with every transcript of the events
\* delivered relayed and no error message attempted.
C19_GracefulTermination == (faExit = "end") ~> (endFailed \/ GracefulDone)

\* Two frames were forwarded, END was read, and both events were relayed
\* before ws_transcribe returned.
C19_Witness ==
    /\ GracefulDone /\ faExit = "end" /\ ~endFailed
    /\ Len(pushed) = 2
    /\ evlog = <<EvA, EvB>> /\ Len(sent) = 4

\* ------------------------------------------------------------------------
\* The normalisation alone: any query parameters, then the upstream open.
\* ------------------------------------------------------------------------
InitParams ==
    /\ rawLang \in LangInputs
    /\ rawRate \in RateInputs
    /\ rawEnc \in EncInputs
    /\ Accepted

NextParams ==
    \/ StartStream
    \/ OpenOk
    \/ OpenFail

SpecParams == InitParams /\ [][NextParams]_vars

\* C13: whatever the raw parameters, the configuration handed to the
\* upstream open has a language in {fr-FR, en-US}, an encoding in
\* {pcm, ogg-opus} and a positive sample rate, and the normalisation
\* always completes.
C13_ValidConfig ==
    /\ orch = "init" =>
          /\ _normalize_lang(rawLang) \in {FR_FR, EN_US}
          /\ SampleRateOf(rawRate) \in Int
          /\ EncodingOf(rawEnc) \in {PCM, OGG_OPUS}
    /\ orch # "init" =>
          /\ lang \in {FR_FR, EN_US}
          /\ encoding \in {PCM, OGG_OPUS}
          /\ sampleRate \in Nat \ {0}

\* The letters of the language codes, in both cases.
Variants(c) ==
    CASE c = "f" -> {"f", "F"} [] c = "r" -> {"r", "R"} [] c = "e" -> {"e", "E"}
      [] c = "n" -> {"n", "N"} [] c = "u" -> {"u", "U"} [] c = "s" -> {"s", "S"}
      [] OTHER -> {c}

Spells(text, w) == Len(text) = Len(w) /\ \A i \in 1..Len(w) : text[i] \in Variants(w[i])

RefLang(l) ==
    IF l = None THEN FR_FR
    ELSE IF \E w \in {<<"e", "n">>, <<"e", "n", "-", "u", "s">>, <<"e", "n", "_", "u", "s">>} :
               Spells(Trim(l[1]), w)
    THEN EN_US ELSE FR_FR

DigitChars == <<"0", "1", "2", "3", "4", "5", "6", "7", "8", "9">>

AllDigits(text) ==
    text # <<>> /\ \A i \in 1..Len(text) : \E k \in 1..10 : DigitChars[k] = text[i]

RECURSIVE RefNum(_, _)
RefNum(text, acc) ==
    IF text = <<>> THEN acc
    ELSE RefNum(Tail(text), 10 * acc + (CHOOSE k \in 0..9 : DigitChars[k + 1] = Head(text)))

\* A sample rate as a client would write it: blanks around it, one sign.
PlainTrim(text) ==
    LET keep == {i \in 1..Len(text) : text[i] \notin {" ", "\t", "\n"}} IN
    IF keep = {} THEN <<>>
    ELSE SubSeq(text, CHOOSE i \in keep : \A j \in keep : i <= j,
                      CHOOSE i \in keep : \A j \in keep : i >= j)

Unsigned(text) ==
    LET t == PlainTrim(text) IN IF t # <<>> /\ t[1] \in {"+", "-"} THEN Tail(t) ELSE t

IsDigitOrGroup(c) == c = "_" \/ IsDigit(c)

\* Not a numeral: no digit at all, or a character that is neither a digit,
\* a sign, whitespace nor the digit separator of Python literals.
NonNumeric(text) ==
    \/ \A i \in 1..Len(text) : ~IsDigit(text[i])
    \/ \E i \in 1..Len(text) :
          ~(IsDigitOrGroup(text[i]) \/ text[i] \in {"+", "-"} \/ IsSpace(text[i]))

IsPositiveIntString(text) ==
    /\ PlainTrim(text) # <<>> /\ PlainTrim(text)[1] # "-"
    /\ AllDigits(Unsigned(text))
    /\ RefNum(Unsigned(text), 0) > 0

\* C14: the normalised language and sample rate equal the documented
\* mapping: fr, fr-fr, fr_fr give fr-FR and en, en-us, en_us give en-US
\* after trimming and ignoring case, anything else or nothing gives fr-FR;
\* a missing or non-numeric sample_rate gives 16000 and a positive integer
\* string gives its value.
C14_ReferenceMapping ==
    orch # "init" =>
      /\ lang = RefLang(rawLang)
      /\ (rawRate = None \/ NonNumeric(rawRate[1])) => sampleRate = 16000
      /\ (rawRate # None /\ IsPositiveIntString(rawRate[1])) =>
             sampleRate = RefNum(Unsigned(rawRate[1]), 0)

\* " en " with a padded 44100 was normalised and handed to the open.
C14_Witness ==
    /\ orch = "gather"
    /\ rawLang = Some(<<" ", "e", "n", " ">>) /\ lang = EN_US
    /\ rawRate = Some(<<" ", "4", "4", "1", "0", "0", "\n">>) /\ sampleRate = 44100
    /\ rawEnc = Some(<<"O", "g", "g", "-", "O", "P", "U", "S">>) /\ encoding = OGG_OPUS

\* ------------------------------------------------------------------------
\* forward_audio alone: the session is accepted and opened, then only the
\* client and forward_audio move, with the wider choice of text frames.
\* ------------------------------------------------------------------------
NextFrames ==
    \/ StartStream
    \/ OpenOk
    \/ FaStart
    \/ \E chunk \in Chunks : FaRecvBinary(chunk)
    \/ \E t \in TextsAll : FaRecvText(t)
    \/ FaRecvDisconnect
    \/ FaRecvRaise
    \/ FaPushOk
    \/ FaPushFail
    \/ \E ok \in BOOLEAN : FaEndStreamDone(ok)
    \/ RtStart
    \/ ClientDisconnect

SpecFrames == Init /\ [][NextFrames]_vars

\* The strings that are END up to case, written out.
EndSpellings ==
    {<<e, n, d>> : e \in {"e", "E"}, n \in {"n", "N"}, d \in {"d", "D"}}

RefIsEnd(s) == Trim(s) \in EndSpellings

\* What a text frame t must do to the state of forward_audio.
TextEffect(t) ==
    IF RefIsEnd(t[1])
    THEN /\ fa' = "closing" /\ faExit' = "end" /\ faPend' = NoExc
         /\ closeCalls' = closeCalls + 1
         /\ UNCHANGED <<recvBin, pushed, stats>>
    ELSE /\ fa' = "recv"
         /\ UNCHANGED <<faExit, faPend, closeCalls, recvBin, pushed, stats>>

TextFrameStep == \A t \in TextsAll : (t # None /\ FaRecvText(t)) => TextEffect(t)

\* C11: a text frame stops the loop of forward_audio iff its content,
\* trimmed and compared without case, is END; any other text frame pushes
\* nothing, changes no counter, leaves the sink open and the loop reading;
\* and the loop is never left as "end" on any other frame.
C11_TextFrames ==
    /\ [][TextFrameStep]_vars
    /\ [](faExit = "end" => (msgText # None /\ RefIsEnd(msgText[1])))
    /\ [](fa = "recv" /\ msgText # None => ~RefIsEnd(msgText[1]))

\* " END " ended the loop after an ignored frame and a forwarded one.
C11_Witness ==
    /\ fa = "done" /\ faExit = "end"
    /\ msgText = Some(<<" ", "E", "N", "D", " ">>)
    /\ recvBin = <<<<7, 7>>>> /\ pushed = recvBin
    /\ closeCalls = 1

====
